---- MODULE Spec2Model ----
(***************************************************************************)
(* The cache decorator of src/lib.rs (CacheLayer / CacheService) as a      *)
(* state machine: a caller polls the decorator for readiness and issues    *)
(* calls; every call is a future that awaits the provider's answer to Get, *)
(* the inner service's answer, and the provider's answer to Insert.  The   *)
(* provider is the store-backed SimpleCache of the tests, extended with    *)
(* the failures and answers the generic bound on P allows.                 *)
(***************************************************************************)
EXTENDS Integers, Sequences, FiniteSets, TLC

VARIABLES
  store,       \* the provider's entries: SimpleCache's HashMap
  ready,       \* self.provider has signalled ready since its previous call
  pollResult,  \* what the decorator's poll_ready last gave the caller
  calls,       \* the futures returned by call, in the order of the calls
  writer,      \* per key, the call whose Insert the provider processed last
  initial,     \* the provider's entries when the layer was built
  processed,   \* idempotency provider: the requests it reports as processed
  icalls,      \* the calls of the idempotency decorator, in order
  guard        \* the call holding exclusive access to the inner service, or 0

cacheVars == <<store, ready, pollResult, calls, writer, initial>>

idemVars == <<processed, icalls, guard>>

vars == <<store, ready, pollResult, calls, writer, initial,
          processed, icalls, guard>>

(* Number of calls the caller issues in one behaviour. *)
MaxCalls == 2

(***************************************************************************)
(* Data: requests are strings (sequences of characters), keys are what the *)
(* transformer makes of them, responses are what the inner service makes   *)
(* of them.                                                                *)
(***************************************************************************)
Requests == { <<"a">>, <<"b">>, <<"a", "b">> }

(* fn transform(req: String) -> usize { req.len() } *)
Transform(req) == Len(req)

Keys == { Transform(r) : r \in Requests }

UpperChar(c) == CASE c = "a" -> "A" [] c = "b" -> "B" [] OTHER -> c

(* async fn service(req: String) -> Result<String, Error> { Ok(req.to_uppercase()) } *)
Handler(req) == [i \in 1..Len(req) |-> UpperChar(req[i])]

(* An entry put in the cache before the layer is built, as test_get does:  *)
(* a value the inner service does not compute.                             *)
Preset(k) == [i \in 1..k |-> "a"]

InitStores ==
  { [k \in D |-> Preset(k)] : D \in SUBSET Keys }

(***************************************************************************)
(* Provider protocol.                                                      *)
(***************************************************************************)
NoVal == <<>>

Get(k) == [op |-> "Get", key |-> k, val |-> NoVal]
Insert(k, v) == [op |-> "Insert", key |-> k, val |-> v]

NoAnswer == [tag |-> "None", val |-> NoVal, origin |-> "none"]

(* Ok(ProviderResponse) | Err(P::Error); an error remembers where it arose. *)
Found(v) == [tag |-> "Found", val |-> v, origin |-> "provider"]
NotFound == [tag |-> "NotFound", val |-> NoVal, origin |-> "provider"]
ProviderErr == [tag |-> "Err", val |-> NoVal, origin |-> "provider"]

(* Ok(S::Response) | Err(S::Error) of the inner service. *)
InnerOk(v) == [tag |-> "Ok", val |-> v, origin |-> "inner"]
InnerErr == [tag |-> "Err", val |-> NoVal, origin |-> "inner"]

(* Results of the decorator: Ok(res) or a variant of Error carrying the    *)
(* boxed cause, of which the model keeps the origin.                       *)
Ok(v) == [tag |-> "Ok", val |-> v, cause |-> "none"]
ProviderError(cause) == [tag |-> "ProviderError", val |-> NoVal, cause |-> cause]
ServiceError(cause) == [tag |-> "ServiceError", val |-> NoVal, cause |-> cause]
InternalError == [tag |-> "InternalError", val |-> NoVal, cause |-> "none"]
NoResult == [tag |-> "None", val |-> NoVal, cause |-> "none"]
Pending == [tag |-> "Pending", val |-> NoVal, cause |-> "none"]
ReadyOk == [tag |-> "Ready", val |-> NoVal, cause |-> "none"]

(***************************************************************************)
(* SimpleCache::call: the store's answer and the store after the request.  *)
(***************************************************************************)
StoreGet(st, k) == IF k \in DOMAIN st THEN Found(st[k]) ELSE NotFound

(* Mutant: an existing entry is kept (entry().or_insert()). *)
StoreInsert_KeepsExisting(st, k, v) ==
  [x \in DOMAIN st \cup {k} |-> IF x \in DOMAIN st THEN st[x] ELSE v]

StoreInsert(st, k, v) ==
  [x \in DOMAIN st \cup {k} |-> IF x = k THEN v ELSE st[x]]

(* History: call c's Insert for key k is the last one processed. *)
LastWriter(w, k, c) ==
  [x \in DOMAIN w \cup {k} |-> IF x = k THEN c ELSE w[x]]


(* What a provider may answer: P is any Service with Response =            *)
(* ProviderResponse<S::Response> and an error type, so a Get is answered   *)
(* from the store or fails, and an Insert stores and answers either        *)
(* variant, or fails.                                                      *)
GetAnswers(st, k) == { StoreGet(st, k), ProviderErr }

InsertAnswers(v) == { Found(v), Found(Preset(1)), NotFound, ProviderErr }

(* What the inner service may answer to a request. *)
InnerAnswers(req) == { InnerOk(Handler(req)), InnerErr }

(***************************************************************************)
(* CacheService::poll_ready: the provider's readiness, its error mapped.   *)
(***************************************************************************)
PollOutcomes == { "Ready", "Pending", "Err" }

CachePollReady(outcome) ==
  CASE outcome = "Ready" -> ReadyOk
    [] outcome = "Pending" -> Pending
    [] outcome = "Err" -> ServiceError(ProviderErr.origin)

(***************************************************************************)
(* CacheService::call, up to the first await: clone the provider and the   *)
(* inner service, transform a clone of the request, send Get(key) on       *)
(* self.provider.  `selfReady` is whether self.provider has signalled      *)
(* ready since its previous call, `done` the calls completed so far.       *)
(***************************************************************************)
Send(call, op, handleReady) ==
  IF handleReady THEN call.unready ELSE call.unready \cup {op}

CallFuture(request, cache_request, selfReady, done) ==
  [ request    |-> request,
    key        |-> cache_request,
    cloneReady |-> FALSE,
    pc         |-> "AwaitGet",
    gets       |-> << Get(cache_request) >>,
    innerArgs  |-> << >>,
    inserts    |-> << >>,
    getAns     |-> NoAnswer,
    innerAns   |-> NoAnswer,
    insertAns  |-> NoAnswer,
    res        |-> NoVal,
    result     |-> NoResult,
    trace      |-> << "Get" >>,
    unready    |-> IF selfReady THEN {} ELSE {"Get"},
    pred       |-> done ]

(* Mutant: the key is the request itself (its encoding as a number), the   *)
(* transformer is not applied.                                             *)
CacheCall_KeysOnRequest(request, selfReady, done) ==
  CallFuture(request, 2 * Len(request) + (IF request[1] = "b" THEN 1 ELSE 0),
             selfReady, done)

CacheCall(request, selfReady, done) ==
  CallFuture(request, Transform(request), selfReady, done)

(* Ok(ProviderResponse::Found(res)) => Ok(res) *)
ReturnHit(call, ans) ==
  [call EXCEPT !.getAns = ans, !.pc = "Done",
               !.result = Ok(ans.val),
               !.trace = @ \o << "GetAns", "Return" >>]

(* Ok(ProviderResponse::NotFound) => inner.call(request) *)
InvokeInner(call, ans) ==
  [call EXCEPT !.getAns = ans, !.pc = "AwaitInner",
               !.innerArgs = Append(@, call.request),
               !.trace = @ \o << "GetAns", "Inner" >>]

(* Err(e) => Err(Error::ProviderError(e.into())) *)
FailGet(call, ans) ==
  [call EXCEPT !.getAns = ans, !.pc = "Done",
               !.result = ProviderError(ans.origin),
               !.trace = @ \o << "GetAns", "Return" >>]

(* Ok(res) => provider.call(ProviderRequest::Insert(cache_request, res.clone())) *)
(* on the clone of the provider made at the start of the call.                  *)
SendInsert(call, ans, k, v) ==
  [call EXCEPT !.innerAns = ans, !.pc = "AwaitInsert",
               !.res = ans.val,
               !.inserts = Append(@, Insert(k, v)),
               !.unready = Send(call, "Insert", call.cloneReady),
               !.trace = @ \o << "InnerAns", "Insert" >>]

(* .map_err(|e| Error::ServiceError(e.into())) ... res => res *)
FailInner(call, ans) ==
  [call EXCEPT !.innerAns = ans, !.pc = "Done",
               !.result = ServiceError(ans.origin),
               !.trace = @ \o << "InnerAns", "Return" >>]

(* Ok(_) => Ok(res) *)
ReturnRes(call, ans) ==
  [call EXCEPT !.insertAns = ans, !.pc = "Done",
               !.result = Ok(call.res),
               !.trace = @ \o << "InsertAns", "Return" >>]

(* Err(e) => Err(Error::ProviderError(e.into())) *)
FailInsert(call, ans) ==
  [call EXCEPT !.insertAns = ans, !.pc = "Done",
               !.result = ProviderError(ans.origin),
               !.trace = @ \o << "InsertAns", "Return" >>]

(* Mutant: a hit is treated as a miss. *)
OnGetAnswer_InvokesInnerOnHit(call, ans) ==
  CASE ans.tag \in {"Found", "NotFound"} -> InvokeInner(call, ans)
    [] OTHER -> FailGet(call, ans)

(* Mutant: a hit writes the found value back to the provider. *)
OnGetAnswer_RefreshesOnHit(call, ans) ==
  CASE ans.tag = "Found" ->
         [call EXCEPT !.getAns = ans, !.pc = "AwaitInsert",
                      !.res = ans.val,
                      !.inserts = Append(@, Insert(call.key, ans.val)),
                      !.trace = @ \o << "GetAns", "Insert" >>]
    [] ans.tag = "NotFound" -> InvokeInner(call, ans)
    [] OTHER -> FailGet(call, ans)

(* Mutant: a failed lookup falls back to the inner service. *)
OnGetAnswer_FallsBackToInner(call, ans) ==
  CASE ans.tag = "Found" -> ReturnHit(call, ans)
    [] OTHER -> InvokeInner(call, ans)

(* Mutant: a failed lookup is reported as an internal error. *)
OnGetAnswer_InternalOnFailure(call, ans) ==
  CASE ans.tag = "Found" -> ReturnHit(call, ans)
    [] ans.tag = "NotFound" -> InvokeInner(call, ans)
    [] OTHER -> [FailGet(call, ans) EXCEPT !.result = InternalError]

(* The future resumed with the answer to Get. *)
OnGetAnswer(call, ans) ==
  CASE ans.tag = "Found" -> ReturnHit(call, ans)
    [] ans.tag = "NotFound" -> InvokeInner(call, ans)
    [] OTHER -> FailGet(call, ans)

(* Mutant: the response is returned without being stored. *)
OnInnerAnswer_SkipsInsert(call, ans) ==
  CASE ans.tag = "Ok" ->
         [call EXCEPT !.innerAns = ans, !.pc = "Done",
                      !.res = ans.val,
                      !.result = Ok(ans.val),
                      !.trace = @ \o << "InnerAns", "Return" >>]
    [] OTHER -> FailInner(call, ans)

(* Mutant: the outcome of the inner service is stored whatever it is. *)
OnInnerAnswer_CachesFailure(call, ans) ==
  SendInsert(call, ans, call.key, ans.val)

(* Mutant: the request is stored in place of the response. *)
OnInnerAnswer_StoresRequest(call, ans) ==
  CASE ans.tag = "Ok" -> SendInsert(call, ans, call.key, call.request)
    [] OTHER -> FailInner(call, ans)

(* Mutant: the key of the Insert is taken from state shared by the calls  *)
(* (the key of the first call), not from this call.                        *)
OnInnerAnswer_InsertsUnderSharedKey(call, ans) ==
  CASE ans.tag = "Ok" -> SendInsert(call, ans, calls[1].key, ans.val)
    [] OTHER -> FailInner(call, ans)

(* The future resumed with the inner service's answer. *)
OnInnerAnswer(call, ans) ==
  CASE ans.tag = "Ok" -> SendInsert(call, ans, call.key, ans.val)
    [] OTHER -> FailInner(call, ans)

(* Mutant: a failed write is swallowed (best-effort caching). *)
OnInsertAnswer_IgnoresFailure(call, ans) ==
  ReturnRes(call, ans)

(* Mutant: a failed write is sent again. *)
OnInsertAnswer_RetriesInsert(call, ans) ==
  CASE ans.tag \in {"Found", "NotFound"} -> ReturnRes(call, ans)
    [] OTHER ->
         [call EXCEPT !.insertAns = ans,
                      !.inserts = Append(@, Insert(call.key, call.res)),
                      !.trace = @ \o << "InsertAns", "Insert" >>]

(* Mutant: the caller is given what the provider answered to the Insert. *)
OnInsertAnswer_ReturnsProviderAnswer(call, ans) ==
  CASE ans.tag = "Found" ->
         [ReturnRes(call, ans) EXCEPT !.result = Ok(ans.val)]
    [] ans.tag = "NotFound" -> ReturnRes(call, ans)
    [] OTHER -> FailInsert(call, ans)

(* The future resumed with the answer to Insert. *)
OnInsertAnswer(call, ans) ==
  CASE ans.tag \in {"Found", "NotFound"} -> ReturnRes(call, ans)
    [] OTHER -> FailInsert(call, ans)

(***************************************************************************)
(* The state machine.                                                      *)
(***************************************************************************)
CallIds == 1..Len(calls)

DoneCalls == { c \in CallIds : calls[c].pc = "Done" }

Init ==
  /\ store \in InitStores
  /\ ready = FALSE
  /\ pollResult = NoResult
  /\ calls = << >>
  /\ writer = << >>
  /\ initial = store
  /\ processed = {}
  /\ icalls = << >>
  /\ guard = 0

(* The caller polls the decorator; a handle that signalled ready stays     *)
(* ready until it is called.                                               *)
PollReady ==
  /\ ~ready
  /\ \E outcome \in PollOutcomes :
       /\ pollResult' = CachePollReady(outcome)
       /\ ready' = (outcome = "Ready")
  /\ UNCHANGED <<store, calls, writer, initial>>
  /\ UNCHANGED idemVars

(* The caller calls the decorator once it has signalled ready. *)
Call ==
  /\ ready
  /\ Len(calls) < MaxCalls
  /\ \E request \in Requests :
       calls' = Append(calls, CacheCall(request, ready, DoneCalls))
  /\ ready' = FALSE
  /\ UNCHANGED <<store, pollResult, writer, initial>>
  /\ UNCHANGED idemVars

(* Mutant: a call is resumed only when the calls before it are done, as   *)
(* under a lock held for the length of a call.                             *)
Runnable_Serialized(c, at) ==
  /\ c \in CallIds
  /\ calls[c].pc = at
  /\ \A d \in 1..(c - 1) : calls[d].pc = "Done"

(* Call c is suspended at await point `at`; nothing else is waited for.    *)
Runnable(c, at) ==
  /\ c \in CallIds
  /\ calls[c].pc = at

(* The provider answers call c's Get. *)
GetAnsweredBy(c) ==
  /\ Runnable(c, "AwaitGet")
  /\ \E ans \in GetAnswers(store, calls[c].key) :
       calls' = [calls EXCEPT ![c] = OnGetAnswer(calls[c], ans)]
  /\ UNCHANGED <<store, ready, pollResult, writer, initial>>
  /\ UNCHANGED idemVars

(* The inner service answers call c's request. *)
InnerAnsweredBy(c) ==
  /\ Runnable(c, "AwaitInner")
  /\ \E ans \in InnerAnswers(calls[c].innerArgs[Len(calls[c].innerArgs)]) :
       calls' = [calls EXCEPT ![c] = OnInnerAnswer(calls[c], ans)]
  /\ UNCHANGED <<store, ready, pollResult, writer, initial>>
  /\ UNCHANGED idemVars

(* The provider processes call c's Insert and answers it. *)
InsertAnsweredBy(c) ==
  /\ Runnable(c, "AwaitInsert")
  /\ LET msg == calls[c].inserts[Len(calls[c].inserts)]
     IN  \E ans \in InsertAnswers(msg.val) :
           /\ calls' = [calls EXCEPT ![c] = OnInsertAnswer(calls[c], ans)]
           /\ store' = IF ans.tag = "Err" THEN store
                       ELSE StoreInsert(store, msg.key, msg.val)
           /\ writer' = IF ans.tag = "Err" THEN writer
                        ELSE LastWriter(writer, msg.key, c)
  /\ UNCHANGED <<ready, pollResult, initial>>
  /\ UNCHANGED idemVars

GetAnswered == \E c \in CallIds : GetAnsweredBy(c)

InnerAnswered == \E c \in CallIds : InnerAnsweredBy(c)

InsertAnswered == \E c \in CallIds : InsertAnsweredBy(c)

Next ==
  \/ PollReady
  \/ Call
  \/ GetAnswered
  \/ InnerAnswered
  \/ InsertAnswered

Spec == Init /\ [][Next]_vars

(* The provider and the inner service eventually answer every request sent *)
(* to them, so every suspended future is eventually resumed.               *)
Resume(c) == GetAnsweredBy(c) \/ InnerAnsweredBy(c) \/ InsertAnsweredBy(c)

FairSpec == Spec /\ \A c \in 1..MaxCalls : WF_vars(Resume(c))

(***************************************************************************)
(* The idempotency decorator: Check(request) to the provider; on Found the *)
(* call fails with AlreadyProcessed; on NotFound it acquires the guard     *)
(* around the one shared inner service, invokes it and releases the guard  *)
(* when the invocation completes or the call is abandoned.  The provider   *)
(* is never told that a request was processed.                             *)
(***************************************************************************)
Check(req) == [op |-> "Check", key |-> req, val |-> NoVal]

AlreadyProcessed ==
  [tag |-> "AlreadyProcessed", val |-> NoVal, cause |-> "none"]

Free == 0

IdemIds == 1..Len(icalls)

(* The provider's answer to Check: Found is a marker without payload. *)
CheckAnswers(seen, req) ==
  { IF req \in seen THEN Found(NoVal) ELSE NotFound, ProviderErr }

(* Start: send the provider a check carrying a clone of the request. *)
IdemCallFuture(request) ==
  [ request   |-> request,
    pc        |-> "AwaitCheck",
    checks    |-> << Check(request) >>,
    checkAns  |-> NoAnswer,
    innerArgs |-> << >>,
    innerAns  |-> NoAnswer,
    blockedBy |-> Free,
    result    |-> NoResult ]

(* Mutant: a request reported as processed is run again. *)
OnCheckAnswer_RunsProcessed(call, ans, holder) ==
  CASE ans.tag \in {"Found", "NotFound"} ->
         [call EXCEPT !.checkAns = ans, !.pc = "AcquireLock",
                      !.blockedBy = holder]
    [] OTHER ->
         [call EXCEPT !.checkAns = ans, !.pc = "Done",
                      !.result = ProviderError(ans.origin)]

(* AwaitCheck: the future resumed with the answer to Check; `holder` is    *)
(* the call holding the guard at that moment.                              *)
OnCheckAnswer(call, ans, holder) ==
  CASE ans.tag = "Found" ->
         [call EXCEPT !.checkAns = ans, !.pc = "Done",
                      !.result = AlreadyProcessed]
    [] ans.tag = "NotFound" ->
         [call EXCEPT !.checkAns = ans, !.pc = "AcquireLock",
                      !.blockedBy = holder]
    [] OTHER ->
         [call EXCEPT !.checkAns = ans, !.pc = "Done",
                      !.result = ProviderError(ans.origin)]

(* Mutant: the inner service is invoked without waiting for the guard. *)
CanAcquire_Always(g) == TRUE

(* Exclusive access is granted only when no call holds the guard. *)
CanAcquire(g) == g = Free

(* Success returns the response unchanged, failure maps to ServiceError. *)
OnIdemInnerAnswer(call, ans) ==
  CASE ans.tag = "Ok" ->
         [call EXCEPT !.innerAns = ans, !.pc = "Done", !.result = Ok(ans.val)]
    [] OTHER ->
         [call EXCEPT !.innerAns = ans, !.pc = "Done",
                      !.result = ServiceError(ans.origin)]

(* Mutant: the guard is released only when the inner service succeeded. *)
GuardAfterInner_KeptOnFailure(g, ans) ==
  IF ans.tag = "Ok" THEN Free ELSE g

(* The guard is released when the invocation completes, success or failure. *)
GuardAfterInner(g, ans) == Free

(* Dropping the future releases the guard it holds. *)
GuardAfterDrop(g, c) == IF g = c THEN Free ELSE g

IdemInit ==
  /\ store = << >>
  /\ ready = FALSE
  /\ pollResult = NoResult
  /\ calls = << >>
  /\ writer = << >>
  /\ initial = << >>
  /\ processed \in SUBSET Requests
  /\ icalls = << >>
  /\ guard = Free

IdemCall ==
  /\ Len(icalls) < MaxCalls
  /\ \E request \in Requests :
       icalls' = Append(icalls, IdemCallFuture(request))
  /\ UNCHANGED <<processed, guard>>
  /\ UNCHANGED cacheVars

CheckAnsweredBy(c) ==
  /\ c \in IdemIds
  /\ icalls[c].pc = "AwaitCheck"
  /\ \E ans \in CheckAnswers(processed, icalls[c].checks[1].key) :
       icalls' = [icalls EXCEPT ![c] = OnCheckAnswer(icalls[c], ans, guard)]
  /\ UNCHANGED <<processed, guard>>
  /\ UNCHANGED cacheVars

AcquireBy(c) ==
  /\ c \in IdemIds
  /\ icalls[c].pc = "AcquireLock"
  /\ CanAcquire(guard)
  /\ guard' = c
  /\ icalls' = [icalls EXCEPT ![c].pc = "AwaitInner",
                              ![c].innerArgs = Append(@, icalls[c].request)]
  /\ UNCHANGED processed
  /\ UNCHANGED cacheVars

IdemInnerAnsweredBy(c) ==
  /\ c \in IdemIds
  /\ icalls[c].pc = "AwaitInner"
  /\ \E ans \in InnerAnswers(icalls[c].innerArgs[Len(icalls[c].innerArgs)]) :
       /\ icalls' = [icalls EXCEPT ![c] = OnIdemInnerAnswer(icalls[c], ans)]
       /\ guard' = GuardAfterInner(guard, ans)
  /\ UNCHANGED processed
  /\ UNCHANGED cacheVars

AbandonBy(c) ==
  /\ c \in IdemIds
  /\ icalls[c].pc \in {"AwaitCheck", "AcquireLock", "AwaitInner"}
  /\ icalls' = [icalls EXCEPT ![c].pc = "Dropped"]
  /\ guard' = GuardAfterDrop(guard, c)
  /\ UNCHANGED processed
  /\ UNCHANGED cacheVars

CheckAnswered == \E c \in IdemIds : CheckAnsweredBy(c)

Acquire == \E c \in IdemIds : AcquireBy(c)

IdemInnerAnswered == \E c \in IdemIds : IdemInnerAnsweredBy(c)

Abandon == \E c \in IdemIds : AbandonBy(c)

IdemNext ==
  \/ IdemCall
  \/ CheckAnswered
  \/ Acquire
  \/ IdemInnerAnswered
  \/ Abandon

IdemSpec == IdemInit /\ [][IdemNext]_vars

(* The provider and the inner service answer every request, and a call     *)
(* waiting for the guard gets it when it is free again and again.          *)
FairIdemSpec ==
  /\ IdemSpec
  /\ \A c \in 1..MaxCalls :
       /\ WF_vars(CheckAnsweredBy(c))
       /\ WF_vars(IdemInnerAnsweredBy(c))
       /\ SF_vars(AcquireBy(c))

(***************************************************************************)
(* Properties.                                                             *)
(***************************************************************************)
Inserted(c) == calls[c].insertAns.tag \in {"Found", "NotFound"}

(* No call other than c1 and c2 works on key k between the start of c1 and *)
(* the completion of c2.                                                   *)
Undisturbed(c1, c2, k) ==
  \A c3 \in CallIds \ {c1, c2} :
    \/ calls[c3].key # k
    \/ c3 \in calls[c1].pred
    \/ c2 \in calls[c3].pred

(* C1: a call whose Get is answered Found(res) ends with Ok(res), the      *)
(* stored value, without invoking the inner service and without sending    *)
(* an Insert.                                                              *)
C1_CacheHitShortCircuit ==
  \A c \in CallIds :
    calls[c].getAns.tag = "Found" =>
      /\ calls[c].pc = "Done"
      /\ calls[c].result = Ok(calls[c].getAns.val)
      /\ calls[c].innerArgs = << >>
      /\ calls[c].inserts = << >>

C1_Witness ==
  \E c \in CallIds :
    /\ calls[c].getAns.tag = "Found"
    /\ calls[c].getAns.val # Handler(calls[c].request)
    /\ calls[c].result = Ok(calls[c].getAns.val)

(* C2: when a request R misses and its call succeeds, the call returns     *)
(* what the inner service returns for R, and a call with the same request  *)
(* issued after the first completed returns that response without invoking *)
(* the inner service: one invocation over the two calls.                   *)
C2_RoundTrip ==
  \A c1, c2 \in CallIds :
    ( /\ c1 \in calls[c2].pred
      /\ calls[c2].request = calls[c1].request
      /\ calls[c1].getAns = NotFound
      /\ calls[c1].result.tag = "Ok"
      /\ calls[c2].pc = "Done"
      /\ calls[c2].getAns.tag # "Err"
      /\ Undisturbed(c1, c2, calls[c1].key) )
    =>
      /\ calls[c1].result = Ok(Handler(calls[c1].request))
      /\ calls[c2].result = calls[c1].result
      /\ calls[c2].innerArgs = << >>
      /\ Len(calls[c1].innerArgs) + Len(calls[c2].innerArgs) = 1

C2_Witness ==
  \E c1, c2 \in CallIds :
    /\ c1 \in calls[c2].pred
    /\ calls[c2].request = calls[c1].request
    /\ calls[c1].getAns = NotFound
    /\ calls[c1].result = Ok(Handler(calls[c1].request))
    /\ calls[c2].pc = "Done"
    /\ calls[c2].getAns = Found(Handler(calls[c1].request))
    /\ calls[c2].result = calls[c1].result

(* C3: when the inner service fails, the call ends with ServiceError and   *)
(* has sent no Insert, the step leaves the store as it was, and a later    *)
(* call with the same request misses again and invokes the inner service.  *)
C3_CallFailed(c) ==
  /\ calls[c].getAns = NotFound
  /\ calls[c].innerAns.tag = "Err"

C3_NoNegativeCaching ==
  /\ [](\A c \in CallIds :
          calls[c].innerAns.tag = "Err" =>
            /\ calls[c].pc = "Done"
            /\ calls[c].result.tag = "ServiceError"
            /\ calls[c].inserts = << >>)
  /\ [](\A c1, c2 \in CallIds :
          ( /\ C3_CallFailed(c1)
            /\ c1 \in calls[c2].pred
            /\ calls[c2].request = calls[c1].request
            /\ calls[c2].getAns.tag \notin {"None", "Err"}
            /\ Undisturbed(c1, c2, calls[c1].key) )
          =>
            /\ calls[c2].getAns = NotFound
            /\ calls[c2].innerArgs = << calls[c2].request >>)
  /\ [][\A c \in CallIds :
          (calls[c].pc = "AwaitInner" /\ calls'[c].innerAns.tag = "Err")
            => store' = store]_vars

C3_Witness ==
  \E c1, c2 \in CallIds :
    /\ C3_CallFailed(c1)
    /\ calls[c1].result.tag = "ServiceError"
    /\ c1 \in calls[c2].pred
    /\ calls[c2].request = calls[c1].request
    /\ calls[c2].getAns = NotFound
    /\ calls[c2].innerArgs = << calls[c2].request >>

(* C4: when the Get misses, the inner service succeeds with res and the    *)
(* Insert fails, the call ends with ProviderError and the caller does not  *)
(* receive res, although the inner service was invoked and succeeded.      *)
C4_InsertFailed(c) ==
  /\ calls[c].getAns = NotFound
  /\ calls[c].innerAns.tag = "Ok"
  /\ calls[c].insertAns.tag = "Err"

C4_InsertFailureSurfaced ==
  \A c \in CallIds :
    C4_InsertFailed(c) =>
      /\ calls[c].pc = "Done"
      /\ calls[c].result.tag = "ProviderError"
      /\ calls[c].result.val # calls[c].innerAns.val
      /\ calls[c].innerArgs = << calls[c].request >>

C4_Witness ==
  \E c \in CallIds :
    /\ C4_InsertFailed(c)
    /\ calls[c].innerAns = InnerOk(Handler(calls[c].request))
    /\ calls[c].result.tag = "ProviderError"

(* C5: for requests R1 # R2 with Transform(R1) = Transform(R2), after a    *)
(* call with R1 missed, succeeded and inserted, a later call with R2 is    *)
(* answered as a hit with the response stored for R1 and does not invoke   *)
(* the inner service.                                                      *)
C5_SameKey(c1, c2) ==
  /\ c1 \in calls[c2].pred
  /\ calls[c1].request # calls[c2].request
  /\ Transform(calls[c1].request) = Transform(calls[c2].request)
  /\ calls[c1].getAns = NotFound
  /\ calls[c1].innerAns.tag = "Ok"
  /\ Inserted(c1)
  /\ calls[c2].getAns.tag \notin {"None", "Err"}

C5_KeyDerivation ==
  \A c1, c2 \in CallIds :
    (C5_SameKey(c1, c2) /\ Undisturbed(c1, c2, calls[c1].key)) =>
      /\ calls[c2].getAns = Found(calls[c1].res)
      /\ calls[c2].result = Ok(calls[c1].res)
      /\ calls[c2].innerArgs = << >>

C5_Witness ==
  \E c1, c2 \in CallIds :
    /\ C5_SameKey(c1, c2)
    /\ calls[c2].result = Ok(Handler(calls[c1].request))
    /\ calls[c2].result # Ok(Handler(calls[c2].request))

(* C6: on a miss the inner service is invoked with the untransformed       *)
(* request; when it succeeds with res the provider is sent Insert(key,     *)
(* res) with the key of this call's Get; on a successful insert the caller *)
(* receives res, and the step that stores it leaves res under the key.     *)
C6_MissPathWriteBack ==
  /\ [](\A c \in CallIds :
          /\ calls[c].gets = << Get(Transform(calls[c].request)) >>
          /\ calls[c].getAns = NotFound =>
               calls[c].innerArgs = << calls[c].request >>
          /\ calls[c].innerAns.tag = "Ok" =>
               calls[c].inserts =
                 << Insert(calls[c].gets[1].key, calls[c].innerAns.val) >>
          /\ Inserted(c) =>
               calls[c].result = Ok(calls[c].innerAns.val))
  /\ [][\A c \in CallIds :
          (calls[c].pc = "AwaitInsert" /\ calls'[c].result.tag = "Ok") =>
            /\ calls[c].key \in DOMAIN store'
            /\ store'[calls[c].key] = calls'[c].result.val]_vars

C6_Witness ==
  \E c \in CallIds :
    /\ calls[c].innerArgs = << calls[c].request >>
    /\ Inserted(c)
    /\ calls[c].result = Ok(Handler(calls[c].request))
    /\ calls[c].key \in DOMAIN store
    /\ store[calls[c].key] = Handler(calls[c].request)

(* C7: within a call the Get is sent and answered before the inner service *)
(* is invoked and before any Insert is sent, the Insert is sent only after *)
(* the inner service answered with success, and no Insert is sent in a     *)
(* call whose Get was not answered NotFound.                               *)
Before(tr, e1, e2) ==
  \A i \in 1..Len(tr) : tr[i] = e2 => \E j \in 1..(i - 1) : tr[j] = e1

C7_PerCallOrdering ==
  \A c \in CallIds :
    LET tr == calls[c].trace
    IN  /\ tr[1] = "Get"
        /\ Before(tr, "Get", "GetAns")
        /\ Before(tr, "GetAns", "Inner")
        /\ Before(tr, "GetAns", "Insert")
        /\ Before(tr, "Inner", "InnerAns")
        /\ Before(tr, "InnerAns", "Insert")
        /\ calls[c].inserts # << >> =>
             /\ calls[c].getAns = NotFound
             /\ calls[c].innerAns.tag = "Ok"

C7_Witness ==
  \E c \in CallIds :
    calls[c].trace =
      << "Get", "GetAns", "Inner", "InnerAns", "Insert", "InsertAns", "Return" >>

(* C8: no request is sent to a provider handle that has not signalled      *)
(* ready since its previous call; the Insert, sent on the clone made for   *)
(* the call, is preceded by a readiness poll of that clone.                *)
C8_ProviderReadyBeforeEachCall ==
  \A c \in CallIds : calls[c].unready = {}

(* C9: a failure that arises in the provider (readiness poll, Get, Insert) *)
(* reaches the caller as ProviderError and a failure that arises in the    *)
(* inner service as ServiceError, never the other way round.               *)
TaggedBySource(r) ==
  /\ r.cause = "provider" => r.tag = "ProviderError"
  /\ r.cause = "inner" => r.tag = "ServiceError"
  /\ r.tag = "ProviderError" => r.cause = "provider"
  /\ r.tag = "ServiceError" => r.cause = "inner"

C9_ErrorsTaggedBySource ==
  /\ TaggedBySource(pollResult)
  /\ \A c \in CallIds : TaggedBySource(calls[c].result)

(* C10: two concurrent calls with one key and a provider without an entry  *)
(* for it are not serialized: when both Gets are answered NotFound, both   *)
(* calls invoke the inner service and both send an Insert for the key, and *)
(* the provider holds the value of the Insert it processed last.           *)
C10_BothMiss(c1, c2) ==
  /\ c1 # c2
  /\ calls[c1].key = calls[c2].key
  /\ calls[c1].getAns = NotFound
  /\ calls[c2].getAns = NotFound

C10_ConcurrentMissesBothInsert ==
  /\ \A c1, c2 \in CallIds :
       C10_BothMiss(c1, c2) =>
         /\ Len(calls[c1].innerArgs) = 1
         /\ Len(calls[c2].innerArgs) = 1
         /\ (calls[c1].innerAns.tag = "Ok" /\ calls[c2].innerAns.tag = "Ok") =>
              /\ Len(calls[c1].inserts) = 1
              /\ Len(calls[c2].inserts) = 1
              /\ calls[c1].inserts[1].key = calls[c2].inserts[1].key
  /\ \A k \in DOMAIN writer :
       /\ k \in DOMAIN store
       /\ Inserted(writer[k])
       /\ store[k] = calls[writer[k]].inserts[1].val

C10_Witness ==
  \E c1, c2 \in CallIds :
    /\ C10_BothMiss(c1, c2)
    /\ DOMAIN store = { calls[c1].key }
    /\ Inserted(c1)
    /\ Inserted(c2)
    /\ calls[c1].res # calls[c2].res
    /\ writer[calls[c1].key] = c1
    /\ store[calls[c1].key] = calls[c1].res
    /\ store[calls[c1].key] # calls[c2].res

(* C11: the decorator takes no lock: a call that has not ended can always  *)
(* be resumed, whatever the other calls in flight are doing; a call has a  *)
(* result exactly when it has ended, the result is Ok or a tagged error    *)
(* and never changes afterwards; and when the provider and the inner       *)
(* service answer every request, every call ends.                          *)
C11_Outcome(c) ==
  /\ calls[c].pc = "Done" <=> calls[c].result # NoResult
  /\ calls[c].result.tag \in {"None", "Ok", "ProviderError", "ServiceError"}

C11_NoBlockingOneOutcome ==
  /\ [](\A c \in CallIds :
          /\ C11_Outcome(c)
          /\ calls[c].pc # "Done" => ENABLED Resume(c))
  /\ [][\A c \in CallIds :
          calls[c].pc = "Done" => calls'[c] = calls[c]]_vars
  /\ <>[](\A c \in CallIds : calls[c].pc = "Done")

C11_Witness ==
  \E c1, c2 \in CallIds :
    /\ c1 < c2
    /\ calls[c1].pc = "AwaitGet"
    /\ c1 \notin calls[c2].pred
    /\ calls[c2].pc = "Done"
    /\ calls[c2].result.tag = "Ok"
    /\ Inserted(c2)

(* C15: when the provider's Get fails, the call ends with ProviderError    *)
(* without invoking the inner service and without sending an Insert.       *)
C15_GetFailureStopsCall ==
  \A c \in CallIds :
    calls[c].getAns.tag = "Err" =>
      /\ calls[c].pc = "Done"
      /\ calls[c].result.tag = "ProviderError"
      /\ calls[c].innerArgs = << >>
      /\ calls[c].inserts = << >>

C15_Witness ==
  \E c \in CallIds :
    /\ calls[c].getAns = ProviderErr
    /\ calls[c].result.tag = "ProviderError"
    /\ calls[c].trace = << "Get", "GetAns", "Return" >>

(* C16: a call sends the provider exactly one Get and at most one Insert   *)
(* and invokes the inner service at most once; a failed answer ends the    *)
(* call, and a call that has failed sends nothing more.                    *)
C16_Failed(c) ==
  calls[c].result.tag \in {"ProviderError", "ServiceError", "InternalError"}

C16_NoInternalRetry ==
  /\ [](\A c \in CallIds :
          /\ Len(calls[c].gets) = 1
          /\ Len(calls[c].inserts) <= 1
          /\ Len(calls[c].innerArgs) <= 1
          /\ "Err" \in { calls[c].getAns.tag, calls[c].innerAns.tag,
                         calls[c].insertAns.tag } =>
               (calls[c].pc = "Done" /\ C16_Failed(c)))
  /\ [][\A c \in CallIds :
          C16_Failed(c) =>
            /\ calls'[c].gets = calls[c].gets
            /\ calls'[c].inserts = calls[c].inserts
            /\ calls'[c].innerArgs = calls[c].innerArgs
            /\ calls'[c].pc = "Done"]_vars

C16_Witness ==
  \E c1, c2 \in CallIds :
    /\ calls[c1].insertAns = ProviderErr
    /\ C16_Failed(c1)
    /\ Len(calls[c1].inserts) = 1
    /\ c1 \in calls[c2].pred
    /\ calls[c2].pc = "Done"

(* C17: no call and no readiness poll yields InternalError, whatever the   *)
(* provider and the inner service answer.                                  *)
C17_InternalErrorUnreachable ==
  /\ pollResult.tag # "InternalError"
  /\ \A c \in CallIds : calls[c].result.tag # "InternalError"

C17_Witness ==
  /\ pollResult.tag = "ServiceError"
  /\ \E c1, c2 \in CallIds :
       /\ calls[c1].getAns = ProviderErr
       /\ calls[c1].result.tag = "ProviderError"
       /\ calls[c2].innerAns = InnerErr
       /\ calls[c2].result.tag = "ServiceError"

(* C18: a call with key k sends the provider only requests that carry k,   *)
(* and no step of the call changes the entry stored under another key.     *)
Entry(st, k) == IF k \in DOMAIN st THEN << st[k] >> ELSE << >>

C18_FrameOnOtherKeys ==
  /\ [](\A c \in CallIds :
          LET k == Transform(calls[c].request)
          IN  /\ \A i \in 1..Len(calls[c].gets) : calls[c].gets[i] = Get(k)
              /\ \A i \in 1..Len(calls[c].inserts) :
                   /\ calls[c].inserts[i].op = "Insert"
                   /\ calls[c].inserts[i].key = k)
  /\ [][\A c \in CallIds :
          calls'[c] # calls[c] =>
            \A k \in (DOMAIN store \cup DOMAIN store') :
              k # Transform(calls[c].request) =>
                Entry(store', k) = Entry(store, k)]_vars

C18_Witness ==
  \E c \in CallIds :
    /\ Inserted(c)
    /\ store[calls[c].key] = calls[c].res
    /\ \E k \in DOMAIN store :
         /\ k # calls[c].key
         /\ store[k] = Preset(k)
         /\ Entry(initial, k) = << Preset(k) >>

(* C19: when the Insert completes without error the call returns the       *)
(* inner service's res, whichever variant the provider answered; the       *)
(* returned value is never taken from the answer to the Insert.            *)
C19_InsertAnswerIgnored ==
  \A c \in CallIds :
    Inserted(c) =>
      /\ calls[c].innerAns.tag = "Ok"
      /\ calls[c].result.tag = "Ok"
      /\ calls[c].result.val = calls[c].innerAns.val
      /\ calls[c].insertAns.tag = "Found" /\ calls[c].insertAns.val # calls[c].innerAns.val
           => calls[c].result.val # calls[c].insertAns.val

C19_Witness ==
  \E c1, c2 \in CallIds :
    /\ calls[c1].insertAns.tag = "Found"
    /\ calls[c1].insertAns.val # calls[c1].innerAns.val
    /\ calls[c1].result = Ok(Handler(calls[c1].request))
    /\ calls[c2].insertAns = NotFound
    /\ calls[c2].result = Ok(Handler(calls[c2].request))

(* C20: every value stored under key k is the entry that was there when    *)
(* the layer was built or a response the inner service returned with       *)
(* success to a call whose request transforms to k; so is every response   *)
(* returned on a hit for k.                                                *)
C20_Legitimate(k, v) ==
  \/ Entry(initial, k) = << v >>
  \/ \E c \in CallIds :
       /\ Transform(calls[c].request) = k
       /\ calls[c].innerAns = InnerOk(v)

C20_CacheIntegrity ==
  /\ \A k \in DOMAIN store : C20_Legitimate(k, store[k])
  /\ \A c \in CallIds :
       calls[c].getAns.tag = "Found" =>
         /\ calls[c].result = Ok(calls[c].getAns.val)
         /\ C20_Legitimate(Transform(calls[c].request), calls[c].result.val)

C20_Witness ==
  \E c1, c2 \in CallIds :
    /\ Entry(initial, calls[c1].key) = << >>
    /\ Inserted(c1)
    /\ store[calls[c1].key] = Handler(calls[c1].request)
    /\ calls[c2].key = calls[c1].key
    /\ calls[c2].request # calls[c1].request
    /\ calls[c2].getAns = Found(Handler(calls[c1].request))
    /\ calls[c2].result = Ok(Handler(calls[c1].request))

(* C12: a call of the idempotency decorator whose Check is answered Found  *)
(* ends with AlreadyProcessed, which is neither ProviderError nor          *)
(* ServiceError, and never invokes the inner service.                      *)
C12_IdempotencyRejection ==
  \A c \in IdemIds :
    icalls[c].checkAns.tag = "Found" =>
      /\ icalls[c].pc \in {"Done"}
      /\ icalls[c].result = AlreadyProcessed
      /\ icalls[c].result.tag \notin {"Ok", "ProviderError", "ServiceError"}
      /\ icalls[c].innerArgs = << >>

C12_Witness ==
  \E c1, c2 \in IdemIds :
    /\ icalls[c1].checkAns.tag = "Found"
    /\ icalls[c1].result = AlreadyProcessed
    /\ icalls[c2].checkAns = ProviderErr
    /\ icalls[c2].result.tag = "ProviderError"

(* C13: at most one call of the idempotency decorator is inside the inner  *)
(* service at any time, whatever the requests; it is the call holding the  *)
(* guard, and a call acquires the guard only when no call is inside.       *)
InInner == { c \in IdemIds : icalls[c].pc = "AwaitInner" }

C13_MutualExclusion ==
  /\ [](/\ Cardinality(InInner) <= 1
        /\ \A c \in InInner : guard = c)
  /\ [][\A c \in IdemIds :
          (icalls[c].pc = "AcquireLock" /\ icalls'[c].pc = "AwaitInner")
            => InInner = {}]_vars

C13_Witness ==
  \E c1, c2 \in IdemIds :
    /\ icalls[c1].pc = "Done"
    /\ icalls[c1].innerArgs # << >>
    /\ icalls[c2].blockedBy = c1
    /\ icalls[c2].request # icalls[c1].request
    /\ icalls[c2].pc = "AwaitInner"
    /\ guard = c2

(* C14: the guard is held only by a call that is inside the inner service: *)
(* it is released when the invocation succeeds, fails or the call is       *)
(* abandoned; so every call waiting for it ends up acquiring it (or being  *)
(* abandoned) and all calls end, whichever calls failed or were abandoned. *)
IdemEnded(c) == icalls[c].pc \in {"Done", "Dropped"}

C14_GuardRelease ==
  /\ [](guard # Free => (guard \in IdemIds /\ icalls[guard].pc = "AwaitInner"))
  /\ <>[](guard = Free /\ \A c \in IdemIds : IdemEnded(c))

C14_Witness ==
  \E c1, c2 \in IdemIds :
    /\ icalls[c1].pc = "Dropped"
    /\ icalls[c1].innerArgs # << >>
    /\ icalls[c2].blockedBy = c1
    /\ icalls[c2].pc = "Done"
    /\ icalls[c2].result.tag = "Ok"
    /\ guard = Free

====
